---- MODULE Spec2Model ----
(***************************************************************************)
(* Model of the DHT single-wire thermometer driver (package dht).          *)
(*                                                                         *)
(* The device of src/dht/thermometer.go is modelled as a state machine     *)
(* whose steps are the pin operations and statements of one                *)
(* Measurements() call: power-up guard, handshake, transmission wait,      *)
(* signal reception, bit decoding, checksum validation, variant decoding,  *)
(* epilogue and the deferred pin restore.  The sensor on the other end of  *)
(* the line is an environment that plays a pulse script, one tick per pin  *)
(* read of the pulse sampler.                                              *)
(***************************************************************************)
EXTENDS Integers, Sequences, FiniteSets, TLC

VARIABLES
    pc,                \* position of the caller inside the driver
    entry,             \* public operation in progress
    measurements,      \* device.measurements (the DeviceType)
    initialized,       \* device.initialized
    temperature,       \* device.temperature (int16, tenths)
    humidity,          \* device.humidity (uint16, tenths)
    pinMode,           \* direction the pin is configured in
    pinLevel,          \* level the pin is set / pulled to
    interruptEnabled,  \* machine.UART1.Interrupt enable state
    state,             \* Measurements: level returned by powerUp
    err,               \* error returned by read()
    retT, retH,        \* Measurements: named results temperature, humidity
    wait,              \* waitForDataTransmission: which of the three waits
    counter,           \* expectChange: loop counter (uint16)
    i, half,           \* receiveSignals: bit index, 0 = low phase, 1 = high
    signals,           \* read: signalsData [80]counter
    buf,               \* read: bufferData [5]byte
    ret,               \* what the last public operation returned
    sensor,            \* environment: the sensor's pulse script
    pre,               \* history: device, pin and interrupt state at call entry
    stages,            \* history: stages of read() reached by this call
    waits,             \* history: handshake waits performed by this call
    everSucceeded,     \* history: some read() has returned nil
    pinOps,            \* history: pin operations performed by this operation
    managed,           \* managedDevice: lastUpdate, cache, clock and its history
    parked             \* the suspended goroutine's position and locals

vars == <<pc, entry, measurements, initialized, temperature, humidity, pinMode,
          pinLevel, interruptEnabled, state, err, retT, retH, wait, counter,
          i, half, signals, buf, ret, sensor, pre, stages, waits, everSucceeded,
          pinOps, managed, parked>>

(***************************************************************************)
(* Program constants and bounds.                                           *)
(***************************************************************************)
NumBits == 40
NumSignals == 80
NumBytes == 5

\* Iteration ceiling of the pulse sampler (scaled down).
timeout == 4
\* Ticks of a handshake pulse and of the low phase of a bit.
PulseTicks == 2
\* Byte values within ByteSpan of 0 and of 255 are drawn as decoder inputs.
ByteSpan == 1

Uint8(n) == n % 256
Uint16(n) == n % 65536

NoError == "nil"
NoSignalError == "NoSignalError"
NoDataError == "NoDataError"
ChecksumError == "ChecksumError"
UninitializedDataError == "UninitializedDataError"

DHT11 == "DHT11"
DHT22 == "DHT22"
DeviceTypes == {DHT11, DHT22}

C == "C"
F == "F"
TemperatureScales == {C, F}

ZeroBuf == [k \in 0..(NumBytes - 1) |-> 0]
ZeroSignals == [k \in 0..(NumSignals - 1) |-> 0]

(***************************************************************************)
(* Pure functions of the driver.                                           *)
(***************************************************************************)
checksum(b) == b[4]

\* Mutant: the sum is not truncated to 8 bits.
computeChecksumWide(b) == b[0] + b[1] + b[2] + b[3]

computeChecksum(b) == Uint8(b[0] + b[1] + b[2] + b[3])

isValid(b) == checksum(b) = computeChecksum(b)

\* Mutant: only the low phase is compared with the ceiling.
sampleTimedOutLowOnly(lowCycle, highCycle) == lowCycle = timeout

\* device.extractData: a sample that ran into the ceiling.
sampleTimedOut(lowCycle, highCycle) == lowCycle = timeout \/ highCycle = timeout

\* Mutant: equal counts give 1.
decodeBitNotLess(lowCycle, highCycle) == IF highCycle >= lowCycle THEN 1 ELSE 0

\* device.extractData: the bit a pair of counts stands for.
decodeBit(lowCycle, highCycle) == IF highCycle > lowCycle THEN 1 ELSE 0

\* device.extractData: shift the bit into the byte, most significant bit first.
shiftIn(byte, bit) == Uint8(byte * 2) + bit

\* The loop of device.extractData from bit n on.
RECURSIVE extractLoop(_, _, _)
extractLoop(sig, b, n) ==
    IF n >= NumBits THEN [err |-> NoError, buf |-> b]
    ELSE LET lowCycle == sig[Uint8(n * 2)]
             highCycle == sig[Uint8(n * 2 + 1)]
             byteN == n \div 8
         IN IF sampleTimedOut(lowCycle, highCycle)
            THEN [err |-> NoDataError, buf |-> b]
            ELSE extractLoop(sig, [b EXCEPT ![byteN] =
                                       shiftIn(@, decodeBit(lowCycle, highCycle))],
                             n + 1)

extractData(sig, b) == extractLoop(sig, b, 0)

\* DeviceType.extractData: the variant decoder.
variantExtractData(dt, b) ==
    IF dt = DHT11
    THEN [temperature |-> b[2] * 10, humidity |-> b[0] * 10]
    ELSE LET magnitude == (b[2] % 128) * 256 + b[3]
         IN [temperature |-> IF b[2] >= 128 THEN -magnitude ELSE magnitude,
             humidity |-> b[0] * 256 + b[1]]

\* TemperatureScale.convertToFloat, as the exact fraction <<numerator, denominator>>.
convertToFloat(scale, t) ==
    IF scale = C THEN <<t, 10>> ELSE <<9 * t + 1600, 50>>

(***************************************************************************)
(* The sensor: an environment that answers the handshake with three        *)
(* pulses (high, low, high), then sends 40 bits as a low pulse followed by *)
(* a high pulse that is longer than the low one for a 1 and shorter for a  *)
(* 0, then pulls the line low once more and releases it.  Phases are       *)
(* numbered from 0; even phases are high.  The script advances one tick    *)
(* per pin read.  A sensor that falls silent stays in phase `stuck`.       *)
(***************************************************************************)
FirstBitPhase == 3
EndPhase == FirstBitPhase + 2 * NumBits
IdlePhase == EndPhase + 1
NoStuck == IdlePhase + 1
StuckPhases == {0, 1, 2, FirstBitPhase, FirstBitPhase + 1, EndPhase - 1, NoStuck}

Payloads ==
    { <<25, 0, 60, 0, 85>>,        \* valid
      <<25, 0, 60, 0, 0>>,         \* checksum mismatch
      <<1, 144, 128, 101, 118>> }  \* valid, payload sum overflows 8 bits

BufOf(p) == [k \in 0..(NumBytes - 1) |-> p[k + 1]]

BitOf(b, n) == (b[n \div 8] \div (2 ^ (7 - (n % 8)))) % 2

PhaseTicks(b, p) ==
    IF p < FirstBitPhase \/ p >= EndPhase \/ p % 2 = 1 THEN PulseTicks
    ELSE IF BitOf(b, (p - FirstBitPhase - 1) \div 2) = 1 THEN PulseTicks + 1
    ELSE 1

\* A line that is not driven by the sensor's script but shows an arbitrary
\* pattern of levels, one per pin read, over and over: stuck high, stuck low
\* and every way of toggling within LinePeriod reads.
LinePeriod == timeout + 2
LinePatterns ==
    {[pattern |-> f, pos |-> 0] : f \in [0..(LinePeriod - 1) -> BOOLEAN]}
IsPattern(s) == "pattern" \in DOMAIN s

SensorLevel(s) == IF IsPattern(s) THEN s.pattern[s.pos] ELSE s.phase % 2 = 0

SensorAdvance(s) ==
    IF IsPattern(s) THEN [s EXCEPT !.pos = (@ + 1) % LinePeriod]
    ELSE IF s.phase = s.stuck \/ s.phase = IdlePhase THEN s
    ELSE IF s.left > 1 THEN [s EXCEPT !.left = @ - 1]
    ELSE [s EXCEPT !.phase = @ + 1, !.left = PhaseTicks(s.payload, s.phase + 1)]

SensorIdle == [payload |-> ZeroBuf, stuck |-> NoStuck, phase |-> IdlePhase, left |-> 0]

SensorStart(b, k) == [payload |-> b, stuck |-> k, phase |-> 0, left |-> PulseTicks]

(***************************************************************************)
(* Initial state: the device as built by New.                              *)
(***************************************************************************)
NoReturn == [op |-> "none"]

\* New: policy.UpdateTime in seconds, and lastUpdate = time.Time{}, a time
\* further in the past than any interval.
UpdateTime == 2
ZeroTime == -1000
UpdateAutomatically == TRUE

\* The managedDevice as built by New, with the clock at 0 and no request made.
ManagedNew ==
    [pc |-> "idle", lastUpdate |-> ZeroTime, now |-> 0,
     cached |-> [temperature |-> 0, humidity |-> 0],
     timestamp |-> 0, calls |-> <<>>]

\* A goroutine that has not called the driver: its position and locals.
GoroutineIdle(id) ==
    [id |-> id, pc |-> "idle", entry |-> "none", state |-> FALSE, err |-> NoError,
     retT |-> 0, retH |-> 0, wait |-> 0, counter |-> 0, i |-> 0, half |-> 0,
     signals |-> ZeroSignals, buf |-> ZeroBuf, ret |-> NoReturn,
     pre |-> [temperature |-> 0, humidity |-> 0, initialized |-> FALSE,
              pinLevel |-> FALSE, interruptEnabled |-> FALSE],
     stages |-> {}, waits |-> <<>>, pinOps |-> 0]

Init ==
    /\ pc = "idle"
    /\ entry = "none"
    /\ measurements \in DeviceTypes
    /\ initialized = FALSE
    /\ temperature = 0
    /\ humidity = 0
    /\ pinMode = "input"
    /\ pinLevel \in BOOLEAN
    /\ interruptEnabled \in BOOLEAN
    /\ state = FALSE
    /\ err = NoError
    /\ retT = 0
    /\ retH = 0
    /\ wait = 0
    /\ counter = 0
    /\ i = 0
    /\ half = 0
    /\ signals = ZeroSignals
    /\ buf = ZeroBuf
    /\ ret = NoReturn
    /\ sensor = SensorIdle
    /\ pre = [temperature |-> 0, humidity |-> 0, initialized |-> FALSE,
              pinLevel |-> pinLevel, interruptEnabled |-> interruptEnabled]
    /\ stages = {}
    /\ waits = <<>>
    /\ everSucceeded = FALSE
    /\ pinOps = 0
    /\ managed = ManagedNew
    /\ parked = GoroutineIdle(2)

device == <<measurements, initialized, temperature, humidity>>
pin == <<pinMode, pinLevel>>
call == <<entry, everSucceeded>>
outer == <<managed, parked>>
sampling == <<wait, counter, i, half, signals>>
results == <<retT, retH, ret>>

(***************************************************************************)
(* Public entry points.  ReadMeasurements() is Measurements() with the     *)
(* values discarded.  Entering the call creates its locals.                *)
(***************************************************************************)
CallBody(e) ==
    /\ pc = "idle"
    /\ pc' = "powerUp"
    /\ entry' = e
    /\ state' = FALSE
    /\ err' = NoError
    /\ retT' = 0
    /\ retH' = 0
    /\ wait' = 0
    /\ counter' = 0
    /\ i' = 0
    /\ half' = 0
    /\ signals' = ZeroSignals
    /\ buf' = ZeroBuf
    /\ ret' = NoReturn
    /\ sensor' = SensorIdle
    /\ pre' = [temperature |-> temperature, humidity |-> humidity,
               initialized |-> initialized, pinLevel |-> pinLevel,
               interruptEnabled |-> interruptEnabled]
    /\ stages' = {}
    /\ waits' = <<>>
    /\ pinOps' = 0
    /\ UNCHANGED <<device, pin, interruptEnabled, everSucceeded>>

Call(e) == CallBody(e) /\ UNCHANGED outer

Measurements == Call("Measurements")

ReadMeasurements == Call("ReadMeasurements")

\* powerUp: read the pin; when it reads low, drive it high and let it settle.
powerUp ==
    /\ pc = "powerUp"
    /\ state' = pinLevel
    /\ pinLevel' = IF ~pinLevel THEN TRUE ELSE pinLevel
    /\ pinOps' = pinOps + (IF ~pinLevel THEN 2 ELSE 1)
    /\ stages' = stages \cup {"powerUp"}
    /\ pc' = "configureOutput"
    /\ UNCHANGED <<call, device, pinMode, interruptEnabled, err, sampling, buf,
                   results, sensor, pre, waits>>
    /\ UNCHANGED outer

(***************************************************************************)
(* initiateCommunication, one step per statement.                          *)
(***************************************************************************)
ConfigureOutput ==
    /\ pc = "configureOutput"
    /\ pinMode' = "output"
    /\ pinOps' = pinOps + 1
    /\ stages' = stages \cup {"initiateCommunication"}
    /\ pc' = "low"
    /\ UNCHANGED <<call, device, pinLevel, interruptEnabled, state, err, sampling,
                   buf, results, sensor, pre, waits>>
    /\ UNCHANGED outer

Low ==
    /\ pc = "low"
    /\ pinLevel' = FALSE
    /\ pinOps' = pinOps + 1
    /\ pc' = "sleep"
    /\ UNCHANGED <<call, device, pinMode, interruptEnabled, state, err, sampling,
                   buf, results, sensor, pre, stages, waits>>
    /\ UNCHANGED outer

Sleep ==
    /\ pc = "sleep"
    /\ pc' = "high"
    /\ UNCHANGED <<call, device, pin, interruptEnabled, state, err, sampling, buf,
                   results, sensor, pre, stages, waits, pinOps>>
    /\ UNCHANGED outer

High ==
    /\ pc = "high"
    /\ pinLevel' = TRUE
    /\ pinOps' = pinOps + 1
    /\ pc' = "configureInput"
    /\ UNCHANGED <<call, device, pinMode, interruptEnabled, state, err, sampling,
                   buf, results, sensor, pre, stages, waits>>
    /\ UNCHANGED outer

\* What the sensor may do once the line is released: answer with a payload,
\* or fall silent at some phase.
SensorScripts == {SensorStart(BufOf(p), k) : p \in Payloads, k \in StuckPhases}

\* Mutant: the sensor starts answering but the pin is left configured as
\* output.
ConfigureInputStaysOutput(lines) ==
    /\ pc = "configureInput"
    /\ pinMode' = pinMode
    /\ pinOps' = pinOps + 1
    /\ \E l \in lines : sensor' = l
    /\ wait' = 1
    /\ counter' = 0
    /\ pc' = "waitForDataTransmission"
    /\ UNCHANGED <<call, device, pinLevel, interruptEnabled, state, err, i, half,
                   signals, buf, results, pre, stages, waits>>
    /\ UNCHANGED outer

\* The line is released to one of the environments in `lines`.
ConfigureInputTo(lines) ==
    /\ pc = "configureInput"
    /\ pinMode' = "input"
    /\ pinOps' = pinOps + 1
    /\ \E l \in lines : sensor' = l
    /\ wait' = 1
    /\ counter' = 0
    /\ pc' = "waitForDataTransmission"
    /\ UNCHANGED <<call, device, pinLevel, interruptEnabled, state, err, i, half,
                   signals, buf, results, pre, stages, waits>>
    /\ UNCHANGED outer

\* The line is released: the sensor starts its answer, or stays silent.
ConfigureInput == ConfigureInputTo(SensorScripts)

(***************************************************************************)
(* expectChange: one iteration of its loop reads the pin once.  The loop   *)
(* goes on while the pin reads oldState and counter is not the ceiling.    *)
(***************************************************************************)
\* Mutant: the loop has no ceiling.
expectChangeNoCeiling(oldState) == SensorLevel(sensor) = oldState

\* Mutant: the loop stops one iteration before the ceiling.
expectChangeStopsEarly(oldState) ==
    SensorLevel(sensor) = oldState /\ counter # timeout - 1

expectChangeContinues(oldState) ==
    SensorLevel(sensor) = oldState /\ counter # timeout

expectChangeIteration ==
    /\ sensor' = SensorAdvance(sensor)
    /\ pinOps' = pinOps + 1

\* waitForDataTransmission: departure from high, from low, from high.
WaitOldState(w) == w # 2

\* Mutant: only the last wait is compared with the ceiling.
waitTimedOutLastOnly(w, c) == w = 3 /\ c = timeout

\* waitForDataTransmission: wait w returned the ceiling.
waitTimedOut(w, c) == c = timeout

waitForDataTransmission ==
    /\ pc = "waitForDataTransmission"
    /\ expectChangeIteration
    /\ stages' = stages \cup {"waitForDataTransmission"}
    /\ IF expectChangeContinues(WaitOldState(wait))
       THEN /\ counter' = Uint16(counter + 1)
            /\ UNCHANGED <<pc, wait, err, waits>>
       ELSE /\ waits' = Append(waits, <<WaitOldState(wait), counter>>)
            /\ counter' = 0
            /\ IF waitTimedOut(wait, counter)
               THEN /\ err' = NoSignalError
                    /\ pc' = "readReturned"
                    /\ UNCHANGED wait
               ELSE /\ err' = err
                    /\ IF wait = 3
                       THEN pc' = "receiveSignals" /\ UNCHANGED wait
                       ELSE pc' = pc /\ wait' = wait + 1
    /\ UNCHANGED <<call, device, pin, interruptEnabled, state, i, half, signals,
                   buf, results, pre>>
    /\ UNCHANGED outer

(***************************************************************************)
(* receiveSignals: disable the interrupt, take the 80 samples, and enable  *)
(* the interrupt again in the deferred call.                               *)
(***************************************************************************)
InterruptDisable ==
    /\ pc = "receiveSignals"
    /\ interruptEnabled' = FALSE
    /\ i' = 0
    /\ half' = 0
    /\ counter' = 0
    /\ stages' = stages \cup {"receiveSignals"}
    /\ pc' = "receiveLoop"
    /\ UNCHANGED <<call, device, pin, state, err, wait, signals, buf, results,
                   sensor, pre, waits, pinOps>>
    /\ UNCHANGED outer

\* Mutant: the loop is left at the first sample that returns the ceiling.
receiveSignalsStopsAtTimeout ==
    /\ pc = "receiveLoop"
    /\ i < NumBits
    /\ expectChangeIteration
    /\ IF expectChangeContinues(half = 1)
       THEN /\ counter' = Uint16(counter + 1)
            /\ UNCHANGED <<pc, i, half, signals>>
       ELSE /\ signals' = [signals EXCEPT ![Uint8(i * 2) + half] = counter]
            /\ counter' = 0
            /\ IF counter = timeout
               THEN pc' = "interruptEnable" /\ UNCHANGED <<i, half>>
               ELSE IF half = 0
                    THEN half' = 1 /\ UNCHANGED <<pc, i>>
                    ELSE /\ half' = 0
                         /\ i' = Uint8(i + 1)
                         /\ pc' = IF Uint8(i + 1) < NumBits THEN pc
                                  ELSE "interruptEnable"
    /\ UNCHANGED <<call, device, pin, interruptEnabled, state, err, wait, buf,
                   results, pre, stages, waits>>
    /\ UNCHANGED outer

receiveSignals ==
    /\ pc = "receiveLoop"
    /\ i < NumBits
    /\ expectChangeIteration
    /\ IF expectChangeContinues(half = 1)
       THEN /\ counter' = Uint16(counter + 1)
            /\ UNCHANGED <<pc, i, half, signals>>
       ELSE /\ signals' = [signals EXCEPT ![Uint8(i * 2) + half] = counter]
            /\ counter' = 0
            /\ IF half = 0
               THEN half' = 1 /\ UNCHANGED <<pc, i>>
               ELSE /\ half' = 0
                    /\ i' = Uint8(i + 1)
                    /\ pc' = IF Uint8(i + 1) < NumBits THEN pc ELSE "interruptEnable"
    /\ UNCHANGED <<call, device, pin, interruptEnabled, state, err, wait, buf,
                   results, pre, stages, waits>>
    /\ UNCHANGED outer

InterruptEnable ==
    /\ pc = "interruptEnable"
    /\ interruptEnabled' = TRUE
    /\ pc' = "extractData"
    /\ UNCHANGED <<call, device, pin, state, err, sampling, buf, results, sensor,
                   pre, stages, waits, pinOps>>
    /\ UNCHANGED outer

(***************************************************************************)
(* The rest of read(): bit decoding, checksum validation, variant          *)
(* decoding.                                                               *)
(***************************************************************************)
\* Mutant: a sample at the ceiling is noted but read() goes on to the checksum.
ExtractDataGoesOn ==
    /\ pc = "extractData"
    /\ LET r == extractData(signals, buf)
       IN /\ buf' = r.buf
          /\ err' = r.err
          /\ pc' = "isValid"
    /\ stages' = stages \cup {"extractData"}
    /\ UNCHANGED <<call, device, pin, interruptEnabled, state, sampling, results,
                   sensor, pre, waits, pinOps>>
    /\ UNCHANGED outer

ExtractData ==
    /\ pc = "extractData"
    /\ LET r == extractData(signals, buf)
       IN /\ buf' = r.buf
          /\ err' = r.err
          /\ pc' = IF r.err # NoError THEN "readReturned" ELSE "isValid"
    /\ stages' = stages \cup {"extractData"}
    /\ UNCHANGED <<call, device, pin, interruptEnabled, state, sampling, results,
                   sensor, pre, waits, pinOps>>
    /\ UNCHANGED outer

\* Mutant: a checksum mismatch is noted but read() goes on to the decoder.
IsValidFallsThrough ==
    /\ pc = "isValid"
    /\ err' = IF ~isValid(buf) THEN ChecksumError ELSE err
    /\ pc' = "variantExtractData"
    /\ stages' = stages \cup {"isValid"}
    /\ UNCHANGED <<call, device, pin, interruptEnabled, state, sampling, buf,
                   results, sensor, pre, waits, pinOps>>
    /\ UNCHANGED outer

IsValid ==
    /\ pc = "isValid"
    /\ IF ~isValid(buf)
       THEN err' = ChecksumError /\ pc' = "readReturned"
       ELSE err' = err /\ pc' = "variantExtractData"
    /\ stages' = stages \cup {"isValid"}
    /\ UNCHANGED <<call, device, pin, interruptEnabled, state, sampling, buf,
                   results, sensor, pre, waits, pinOps>>
    /\ UNCHANGED outer

VariantExtractData ==
    /\ pc = "variantExtractData"
    /\ LET r == variantExtractData(measurements, buf)
       IN /\ temperature' = r.temperature
          /\ humidity' = r.humidity
    /\ err' = NoError
    /\ stages' = stages \cup {"variantExtractData"}
    /\ pc' = "readReturned"
    /\ UNCHANGED <<call, measurements, initialized, pin, interruptEnabled, state,
                   sampling, buf, results, sensor, pre, waits, pinOps>>
    /\ UNCHANGED outer

(***************************************************************************)
(* Measurements() after read() returned, and its deferred pin.Set(state).  *)
(***************************************************************************)
\* Mutant: on failure the results are decoded from the buffer of this read.
MeasurementsEpilogueReturnsBuffer ==
    /\ pc = "readReturned"
    /\ IF err # NoError
       THEN /\ retT' = variantExtractData(measurements, buf).temperature
            /\ retH' = variantExtractData(measurements, buf).humidity
            /\ initialized' = TRUE
       ELSE UNCHANGED <<retT, retH, initialized>>
    /\ everSucceeded' = (everSucceeded \/ err = NoError)
    /\ pc' = "deferredSet"
    /\ UNCHANGED <<entry, measurements, temperature, humidity, pin,
                   interruptEnabled, state, err, sampling, buf, ret, sensor, pre,
                   stages, waits, pinOps>>
    /\ UNCHANGED outer

MeasurementsEpilogue ==
    /\ pc = "readReturned"
    /\ IF err # NoError
       THEN /\ retT' = temperature
            /\ retH' = humidity
            /\ initialized' = TRUE
       ELSE UNCHANGED <<retT, retH, initialized>>
    /\ everSucceeded' = (everSucceeded \/ err = NoError)
    /\ pc' = "deferredSet"
    /\ UNCHANGED <<entry, measurements, temperature, humidity, pin,
                   interruptEnabled, state, err, sampling, buf, ret, sensor, pre,
                   stages, waits, pinOps>>
    /\ UNCHANGED outer

MeasurementsReturn ==
    IF entry = "Measurements"
    THEN [op |-> "Measurements", temperature |-> retT, humidity |-> retH, err |-> err]
    ELSE [op |-> "ReadMeasurements", err |-> err]

\* Mutant: the pin is restored at the end of the success path only.
DeferredSetOnSuccess ==
    /\ pc = "deferredSet"
    /\ pinLevel' = IF err = NoError THEN state ELSE pinLevel
    /\ pinOps' = pinOps + 1
    /\ ret' = MeasurementsReturn
    /\ pc' = "idle"
    /\ UNCHANGED <<call, device, pinMode, interruptEnabled, state, err, retT, retH,
                   sampling, buf, sensor, pre, stages, waits>>
    /\ UNCHANGED outer

DeferredSet ==
    /\ pc = "deferredSet"
    /\ pinLevel' = state
    /\ pinOps' = pinOps + 1
    /\ ret' = MeasurementsReturn
    /\ pc' = "idle"
    /\ UNCHANGED <<call, device, pinMode, interruptEnabled, state, err, retT, retH,
                   sampling, buf, sensor, pre, stages, waits>>
    /\ UNCHANGED outer

(***************************************************************************)
(* Accessors.                                                              *)
(***************************************************************************)
TemperatureResult ==
    IF ~initialized THEN [op |-> "Temperature", value |-> 0, err |-> UninitializedDataError]
    ELSE [op |-> "Temperature", value |-> temperature, err |-> NoError]

TemperatureFloatResult(scale) ==
    IF ~initialized
    THEN [op |-> "TemperatureFloat", value |-> <<0, 1>>, err |-> UninitializedDataError]
    ELSE [op |-> "TemperatureFloat", value |-> convertToFloat(scale, temperature),
          err |-> NoError]

HumidityResult ==
    IF ~initialized THEN [op |-> "Humidity", value |-> 0, err |-> UninitializedDataError]
    ELSE [op |-> "Humidity", value |-> humidity, err |-> NoError]

HumidityFloatResult ==
    IF ~initialized
    THEN [op |-> "HumidityFloat", value |-> <<0, 1>>, err |-> UninitializedDataError]
    ELSE [op |-> "HumidityFloat", value |-> <<humidity, 10>>, err |-> NoError]

Accessor(r) ==
    /\ pc = "idle"
    /\ ret' = r
    /\ pinOps' = 0
    /\ UNCHANGED <<pc, call, device, pin, interruptEnabled, state, err, retT, retH,
                   sampling, buf, sensor, pre, stages, waits>>
    /\ UNCHANGED outer

Temperature == Accessor(TemperatureResult)

TemperatureFloat == \E scale \in TemperatureScales : Accessor(TemperatureFloatResult(scale))

Humidity == Accessor(HumidityResult)

HumidityFloat == Accessor(HumidityFloatResult)

Next ==
    \/ Measurements
    \/ ReadMeasurements
    \/ powerUp
    \/ ConfigureOutput
    \/ Low
    \/ Sleep
    \/ High
    \/ ConfigureInput
    \/ waitForDataTransmission
    \/ InterruptDisable
    \/ receiveSignals
    \/ InterruptEnable
    \/ ExtractData
    \/ IsValid
    \/ VariantExtractData
    \/ MeasurementsEpilogue
    \/ DeferredSet
    \/ Temperature
    \/ TemperatureFloat
    \/ Humidity
    \/ HumidityFloat

Spec == Init /\ [][Next]_vars

(***************************************************************************)
(* The read cycle against an arbitrary line: the same steps, with the pin  *)
(* showing any of LinePatterns once it is released.                        *)
(***************************************************************************)
ConfigureInputLine == ConfigureInputTo(LinePatterns)

NextLine ==
    \/ Measurements
    \/ ReadMeasurements
    \/ powerUp
    \/ ConfigureOutput
    \/ Low
    \/ Sleep
    \/ High
    \/ ConfigureInputLine
    \/ waitForDataTransmission
    \/ InterruptDisable
    \/ receiveSignals
    \/ InterruptEnable
    \/ ExtractData
    \/ IsValid
    \/ VariantExtractData
    \/ MeasurementsEpilogue
    \/ DeferredSet

\* A DHT22 whose caller runs with interrupts enabled; the idle line is at
\* either level.
InitLine == Init /\ measurements = DHT22 /\ interruptEnabled

SpecLine == InitLine /\ [][NextLine]_vars

\* The steps of a call in progress: the processor executes them one after
\* the other; whether the caller ever calls again is left open.
CallStep ==
    \/ powerUp
    \/ ConfigureOutput
    \/ Low
    \/ Sleep
    \/ High
    \/ ConfigureInputLine
    \/ waitForDataTransmission
    \/ InterruptDisable
    \/ receiveSignals
    \/ InterruptEnable
    \/ ExtractData
    \/ IsValid
    \/ VariantExtractData
    \/ MeasurementsEpilogue
    \/ DeferredSet

SpecLineFair == SpecLine /\ WF_vars(CallStep)

(***************************************************************************)
(* The decoding stages of read() on drawn samples.  The initial states are *)
(* the states in which receiveSignals has returned, for a pin that made    *)
(* the 80 counts come out as one of DecodeInputs: the encodings of the     *)
(* buffers over ByteSamples, the streams that repeat three count pairs,    *)
(* and the streams of the sensor's payloads with one sample at the         *)
(* ceiling.                                                                *)
(***************************************************************************)
ByteSamples == (0..ByteSpan) \cup ((255 - ByteSpan)..255)

Encode(b) ==
    [k \in 0..(NumSignals - 1) |->
        IF k % 2 = 0 THEN PulseTicks - 1
        ELSE IF BitOf(b, k \div 2) = 1 THEN PulseTicks ELSE 0]

EncodedInputs == {Encode(b) : b \in [0..(NumBytes - 1) -> ByteSamples]}

Counts == {0, 1, timeout - 1, timeout}

PatternInputs ==
    {[k \in 0..(NumSignals - 1) |-> pat[(k \div 2) % 3][(k % 2) + 1]] :
        pat \in [0..2 -> Counts \X Counts]}

TimeoutInputs ==
    {[Encode(BufOf(p)) EXCEPT ![k] = timeout] :
        p \in Payloads, k \in 0..(NumSignals - 1)}

DecodeInputs == EncodedInputs \cup PatternInputs \cup TimeoutInputs

\* Pin reads of the 80 samples from sample k on: one per count and the one
\* that ended the wait.
RECURSIVE SampleReads(_, _)
SampleReads(sig, k) ==
    IF k >= NumSignals THEN 0 ELSE sig[k] + 1 + SampleReads(sig, k + 1)

InitDecode ==
    /\ pc = "extractData"
    /\ entry = "Measurements"
    /\ measurements \in DeviceTypes
    /\ initialized = FALSE
    /\ temperature = 0
    /\ humidity = 0
    /\ pinMode = "input"
    /\ pinLevel = TRUE
    /\ interruptEnabled = TRUE
    /\ state = TRUE
    /\ err = NoError
    /\ retT = 0
    /\ retH = 0
    /\ wait = 3
    /\ counter = 0
    /\ i = NumBits
    /\ half = 0
    /\ signals \in DecodeInputs
    /\ buf = ZeroBuf
    /\ ret = NoReturn
    /\ sensor = SensorIdle
    /\ pre = [temperature |-> 0, humidity |-> 0, initialized |-> FALSE,
              pinLevel |-> TRUE, interruptEnabled |-> TRUE]
    /\ stages = {"powerUp", "initiateCommunication", "waitForDataTransmission",
                 "receiveSignals"}
    /\ waits = [k \in 1..3 |-> <<WaitOldState(k), PulseTicks - 1>>]
    /\ everSucceeded = FALSE
    /\ pinOps = 5 + 3 * PulseTicks + SampleReads(signals, 0)
    /\ managed = ManagedNew
    /\ parked = GoroutineIdle(2)

NextDecode ==
    \/ ExtractData
    \/ IsValid
    \/ VariantExtractData
    \/ MeasurementsEpilogue
    \/ DeferredSet

SpecDecode == InitDecode /\ [][NextDecode]_vars

(***************************************************************************)
(* Properties.                                                             *)
(***************************************************************************)
ReadOps == {"Measurements", "ReadMeasurements"}
AccessorOps == {"Temperature", "TemperatureFloat", "Humidity", "HumidityFloat"}

\* A Measurements() or ReadMeasurements() call has just returned.
Returned == pc = "idle" /\ ret.op \in ReadOps

\* What the variant decoder makes of the buffer of the last read.
Decoded == variantExtractData(measurements, buf)

NoSampleTimedOut == \A k \in 0..(NumSignals - 1) : signals[k] # timeout

\* byte[4] is the sum of bytes 0..3 modulo 256.
ChecksumMatches == \E q \in 0..3 : buf[0] + buf[1] + buf[2] + buf[3] = 256 * q + buf[4]

\* C1: after a read that completed successfully the device is initialized, the
\* four accessors return the values this read decoded with a nil error, and an
\* accessor performs no pin operation.
C1_SuccessInitializes ==
    /\ (Returned /\ ret.err = NoError) =>
           /\ initialized
           /\ TemperatureResult.err = NoError
           /\ TemperatureResult.value = Decoded.temperature
           /\ HumidityResult.err = NoError
           /\ HumidityResult.value = Decoded.humidity
           /\ \A scale \in TemperatureScales :
                  /\ TemperatureFloatResult(scale).err = NoError
                  /\ TemperatureFloatResult(scale).value
                         = convertToFloat(scale, Decoded.temperature)
           /\ HumidityFloatResult.err = NoError
           /\ HumidityFloatResult.value = <<Decoded.humidity, 10>>
    /\ (pc = "idle" /\ ret.op \in AccessorOps) => pinOps = 0

\* C2: as long as no read has succeeded, every accessor returns the
\* Uninitialized error.
C2_FailedReadsStayUninitialized ==
    (pc = "idle" /\ ~everSucceeded) =>
        /\ TemperatureResult.err = UninitializedDataError
        /\ HumidityResult.err = UninitializedDataError
        /\ HumidityFloatResult.err = UninitializedDataError
        /\ \A scale \in TemperatureScales :
               TemperatureFloatResult(scale).err = UninitializedDataError

\* C3: a successful Measurements() returns nil together with the temperature
\* and humidity that the read decoded and stored.
C3_SuccessReturnsStored ==
    (pc = "idle" /\ ret.op = "Measurements" /\ ret.err = NoError) =>
        /\ "variantExtractData" \in stages
        /\ ret.temperature = temperature
        /\ ret.humidity = humidity
        /\ temperature = Decoded.temperature
        /\ humidity = Decoded.humidity

\* C4: a failed read leaves the stored temperature and humidity as they were
\* at call entry; the variant decoder runs, and the stored values change, only
\* when no sample reached the ceiling and the checksum matches.
C4_FailedReadKeepsStored ==
    /\ err # NoError =>
           /\ temperature = pre.temperature
           /\ humidity = pre.humidity
           /\ "variantExtractData" \notin stages
    /\ "variantExtractData" \in stages => (NoSampleTimedOut /\ ChecksumMatches)
    /\ (temperature # pre.temperature \/ humidity # pre.humidity) =>
           "variantExtractData" \in stages

\* A checksum failure returned while the device held other values than the
\* rejected buffer decodes to.
C4_Witness ==
    /\ Returned
    /\ ret.err = ChecksumError
    /\ pre.temperature # 0
    /\ Decoded.temperature # temperature

\* C5: when the call returns, on any path, the pin is at the level the
\* power-up guard observed at the start of the call.
C5_PinRestored ==
    Returned => (state = pre.pinLevel /\ pinLevel = pre.pinLevel)

C5_Witness ==
    /\ Returned
    /\ ret.err = NoDataError
    /\ ~pre.pinLevel
    /\ ~pinLevel

\* C6: the interrupt is disabled during the 80 samples, and when the call
\* returns its enable state is what it was before the call.
C6_InterruptRestored ==
    /\ pc = "receiveLoop" => ~interruptEnabled
    /\ Returned => interruptEnabled = pre.interruptEnabled

\* C7: the handshake waits are for departure from high, low, high, in this
\* order; a wait that returns the ceiling is the last one, the read fails with
\* NoSignal, and neither sampling nor decoding takes place.
C7_HandshakeWaits ==
    /\ Len(waits) <= 3
    /\ \A k \in 1..Len(waits) :
           /\ waits[k][1] = (k # 2)
           /\ waits[k][2] = timeout =>
                  /\ k = Len(waits)
                  /\ pc \in {"readReturned", "deferredSet", "idle"}
                  /\ err = NoSignalError
                  /\ stages \cap {"receiveSignals", "extractData", "isValid",
                                  "variantExtractData"} = {}
                  /\ signals = ZeroSignals
                  /\ buf = ZeroBuf
    /\ "receiveSignals" \in stages =>
           (Len(waits) = 3 /\ \A k \in 1..3 : waits[k][2] # timeout)
    /\ err = NoSignalError =>
           (Len(waits) \in 1..3 /\ waits[Len(waits)][2] = timeout)

\* The second wait ran into the ceiling.
C7_Witness ==
    /\ Returned
    /\ Len(waits) = 2
    /\ waits[1][2] # timeout
    /\ waits[2][2] = timeout

\* The bit that the pair of counts of bit n stands for: 1 exactly when the
\* high-phase count is strictly greater than the low-phase count.
Bit(n) == IF signals[2 * n + 1] > signals[2 * n] THEN 1 ELSE 0

\* Eight bits from bit n on, most significant first.
Packed(n) ==
    128 * Bit(n) + 64 * Bit(n + 1) + 32 * Bit(n + 2) + 16 * Bit(n + 3)
        + 8 * Bit(n + 4) + 4 * Bit(n + 5) + 2 * Bit(n + 6) + Bit(n + 7)

\* C8: when any of the 80 samples is the ceiling the read reports NoData,
\* and the buffer reaches neither checksum validation nor the variant decoder.
C8_SampleTimeoutIsNoData ==
    ("extractData" \in stages /\ ~NoSampleTimedOut) =>
        /\ err = NoDataError
        /\ pc \in {"readReturned", "deferredSet", "idle"}
        /\ "isValid" \notin stages
        /\ "variantExtractData" \notin stages
        /\ Returned => ret.err = NoDataError

\* Only the very last sample is at the ceiling, and the read returned NoData.
C8_Witness ==
    /\ Returned
    /\ ret.err = NoDataError
    /\ signals[NumSignals - 1] = timeout
    /\ \A k \in 0..(NumSignals - 2) : signals[k] # timeout

\* C9: when no sample is the ceiling, bit decoding succeeds and byte k of the
\* buffer is the sum over j in 0..7 of bit(8k+j) * 2^(7-j).
C9_BitsPackedMsbFirst ==
    ("extractData" \in stages /\ NoSampleTimedOut) =>
        /\ err # NoDataError
        /\ \A k \in 0..(NumBytes - 1) : buf[k] = Packed(8 * k)

\* A decoded stream with a pair of equal non-zero counts and bits of both values.
C9_Witness ==
    /\ "extractData" \in stages
    /\ NoSampleTimedOut
    /\ \E n \in 0..(NumBits - 1) : signals[2 * n] = signals[2 * n + 1] /\ signals[2 * n] > 0
    /\ \E n \in 0..(NumBits - 1) : Bit(n) = 1
    /\ buf[0] \notin {0, 255}

\* C10: checksum validation lets the buffer through exactly when byte[4] is
\* the sum of bytes 0..3 modulo 256.
C10_ChecksumIffTruncatedSum ==
    "isValid" \in stages =>
        /\ (err # ChecksumError) <=> ChecksumMatches
        /\ (pc = "variantExtractData" \/ "variantExtractData" \in stages)
               <=> ChecksumMatches

\* A buffer whose payload sum overflows 8 bits passed validation.
C10_Witness ==
    /\ "isValid" \in stages
    /\ err = NoError
    /\ pc = "variantExtractData"
    /\ buf[0] + buf[1] + buf[2] + buf[3] >= 256

(***************************************************************************)
(* The managed device returned by New: the device behind an update policy. *)
(* The clock counts seconds.  A request stamps the time; when the last     *)
(* successful read is older than policy.UpdateTime it delegates to         *)
(* device.Measurements and, on success, keeps the stamp and the values;    *)
(* otherwise it answers from the cache without touching the pin.           *)
(* managed.calls records each answered request: its time, whether it read  *)
(* the sensor, and its error.                                              *)
(***************************************************************************)
MaxClock == 5
MaxCalls == 3

\* Mutant: every request reads the sensor.
updateAlways(elapsed) == elapsed >= 0

updateDue(elapsed) == UpdateAutomatically /\ elapsed > UpdateTime

Tick ==
    /\ managed.pc = "idle"
    /\ pc = "idle"
    /\ managed.now < MaxClock
    /\ managed' = [managed EXCEPT !.now = @ + 1]
    /\ UNCHANGED <<pc, call, device, pin, interruptEnabled, state, err, sampling,
                   buf, results, sensor, pre, stages, waits, pinOps, parked>>

ManagedCached ==
    /\ managed.pc = "idle"
    /\ pc = "idle"
    /\ Len(managed.calls) < MaxCalls
    /\ ~updateDue(managed.now - managed.lastUpdate)
    /\ managed' = [managed EXCEPT
                       !.timestamp = managed.now,
                       !.calls = Append(@, [at |-> managed.now, read |-> FALSE,
                                            err |-> NoError])]
    /\ UNCHANGED <<pc, call, device, pin, interruptEnabled, state, err, sampling,
                   buf, results, sensor, pre, stages, waits, pinOps, parked>>

ManagedDelegate ==
    /\ managed.pc = "idle"
    /\ Len(managed.calls) < MaxCalls
    /\ updateDue(managed.now - managed.lastUpdate)
    /\ managed' = [managed EXCEPT !.pc = "reading", !.timestamp = managed.now]
    /\ CallBody("Measurements")
    /\ UNCHANGED parked

ManagedReturn ==
    /\ managed.pc = "reading"
    /\ pc = "idle"
    /\ managed' = [managed EXCEPT
                       !.pc = "idle",
                       !.lastUpdate = IF ret.err = NoError THEN managed.timestamp ELSE @,
                       !.cached = IF ret.err = NoError
                                  THEN [temperature |-> ret.temperature,
                                        humidity |-> ret.humidity]
                                  ELSE @,
                       !.calls = Append(@, [at |-> managed.timestamp, read |-> TRUE,
                                            err |-> ret.err])]
    /\ UNCHANGED <<pc, call, device, pin, interruptEnabled, state, err, sampling,
                   buf, results, sensor, pre, stages, waits, pinOps, parked>>

\* The sensor answers with a valid payload, or stays silent.
ManagedLines == {SensorStart(BufOf(<<25, 0, 60, 0, 85>>), k) : k \in {NoStuck, 0}}

ConfigureInputManaged == ConfigureInputTo(ManagedLines)

NextManaged ==
    \/ Tick
    \/ ManagedCached
    \/ ManagedDelegate
    \/ ManagedReturn
    \/ powerUp
    \/ ConfigureOutput
    \/ Low
    \/ Sleep
    \/ High
    \/ ConfigureInputManaged
    \/ waitForDataTransmission
    \/ InterruptDisable
    \/ receiveSignals
    \/ InterruptEnable
    \/ ExtractData
    \/ IsValid
    \/ VariantExtractData
    \/ MeasurementsEpilogue
    \/ DeferredSet

SpecManaged == InitLine /\ [][NextManaged]_vars

\* Time of the last successful read among the first k answered requests.
RECURSIVE LastSuccess(_)
LastSuccess(k) ==
    IF k = 0 THEN ZeroTime
    ELSE IF managed.calls[k].read /\ managed.calls[k].err = NoError
         THEN managed.calls[k].at
         ELSE LastSuccess(k - 1)

\* Physical reads among the first k answered requests.
RECURSIVE PhysicalReads(_)
PhysicalReads(k) ==
    IF k = 0 THEN 0
    ELSE (IF managed.calls[k].read THEN 1 ELSE 0) + PhysicalReads(k - 1)

Running ==
    [id |-> 3 - parked.id, pc |-> pc, entry |-> entry, state |-> state,
     err |-> err, retT |-> retT, retH |-> retH, wait |-> wait,
     counter |-> counter, i |-> i, half |-> half, signals |-> signals,
     buf |-> buf, ret |-> ret, pre |-> pre, stages |-> stages, waits |-> waits,
     pinOps |-> pinOps]

\* The running goroutine is in time.Sleep, or outside the driver.
AtYield ==
    \/ pc = "idle"
    \/ pc = "sleep"
    \/ pc = "configureOutput" /\ ~state

Switch ==
    /\ AtYield
    /\ parked' = Running
    /\ pc' = parked.pc
    /\ entry' = parked.entry
    /\ state' = parked.state
    /\ err' = parked.err
    /\ retT' = parked.retT
    /\ retH' = parked.retH
    /\ wait' = parked.wait
    /\ counter' = parked.counter
    /\ i' = parked.i
    /\ half' = parked.half
    /\ signals' = parked.signals
    /\ buf' = parked.buf
    /\ ret' = parked.ret
    /\ pre' = parked.pre
    /\ stages' = parked.stages
    /\ waits' = parked.waits
    /\ pinOps' = parked.pinOps
    /\ UNCHANGED <<device, pin, interruptEnabled, sensor, everSucceeded, managed>>

ConfigureInputConcurrent == ConfigureInputTo(ManagedLines)

\* The running goroutine may call Measurements() whenever it is outside the
\* driver; nothing in the driver looks at what the other goroutine is doing.
NextConcurrent ==
    \/ Measurements
    \/ Switch
    \/ powerUp
    \/ ConfigureOutput
    \/ Low
    \/ Sleep
    \/ High
    \/ ConfigureInputConcurrent
    \/ waitForDataTransmission
    \/ InterruptDisable
    \/ receiveSignals
    \/ InterruptEnable
    \/ ExtractData
    \/ IsValid
    \/ VariantExtractData
    \/ MeasurementsEpilogue
    \/ DeferredSet

SpecConcurrent == InitLine /\ [][NextConcurrent]_vars

\* C16: the pin operations of two Measurements() calls on the same device
\* never interleave: while one call has started its pin operations and has
\* not returned, the other call performs none.
C16_OneReadInFlight ==
    ~(/\ parked.pc # "idle"
      /\ parked.pinOps > 0
      /\ pc # "idle"
      /\ pinOps > 0)

(***************************************************************************)
(* Properties of the read cycle against an arbitrary line.                 *)
(***************************************************************************)
\* Pin operations a call can perform at most: powerUp's read and write, the
\* four of the handshake, timeout + 1 reads for each of the 3 + 80 waits, and
\* the deferred write.
MaxPinOps == 2 + 4 + (3 + NumSignals) * (timeout + 1) + 1

\* C11: a read never blocks: no wait counts beyond the ceiling, a call makes
\* at most 3 handshake waits and 80 sample waits whatever the pin shows, and
\* every call in progress returns.
C11_ReadReturns ==
    /\ [](/\ counter \in 0..timeout
          /\ Len(waits) <= 3
          /\ i \in 0..NumBits
          /\ pinOps <= MaxPinOps)
    /\ [](pc # "idle" => <>(pc = "idle"))

\* A call against a line stuck low returned.
C11_Witness ==
    /\ Returned
    /\ IsPattern(sensor)
    /\ \A k \in 0..(LinePeriod - 1) : ~sensor.pattern[k]

\* Consecutive reads of level o that the pattern shows from position st on,
\* counted up to cap.
RECURSIVE Run(_, _, _, _)
Run(pat, st, o, cap) ==
    IF cap = 0 \/ pat[st] # o THEN 0
    ELSE 1 + Run(pat, (st + 1) % LinePeriod, o, cap - 1)

\* Pin reads of the first k handshake waits: each wait reads once per count
\* and once more to end.
RECURSIVE WaitReads(_)
WaitReads(k) == IF k = 0 THEN 0 ELSE waits[k][2] + 1 + WaitReads(k - 1)

\* Position of the pattern at which sample n starts.
SampleStart(n) ==
    (WaitReads(3) + SampleReads(signals, 0) - SampleReads(signals, n)) % LinePeriod

\* C13: every count expectChange returned is the number of consecutive reads
\* of oldState the line showed before the first read that differs, capped at
\* the ceiling; it lies in 0..timeout.
C13_SamplerCounts ==
    /\ counter \in 0..timeout
    /\ \A n \in 0..(NumSignals - 1) : signals[n] \in 0..timeout
    /\ IsPattern(sensor) =>
           /\ \A k \in 1..Len(waits) :
                  waits[k][2] = Run(sensor.pattern, WaitReads(k - 1) % LinePeriod,
                                    waits[k][1], timeout)
           /\ pc = "interruptEnable" =>
                  \A n \in 0..(NumSignals - 1) :
                      signals[n] = Run(sensor.pattern, SampleStart(n), n % 2 = 1, timeout)

\* All 80 samples were taken: a handshake wait counted a run shorter than the
\* ceiling, some samples ran into the ceiling and some saw the level differ
\* at once.
C13_Witness ==
    /\ pc = "interruptEnable"
    /\ IsPattern(sensor)
    /\ \E k \in 1..3 : waits[k][2] \in 1..(timeout - 1)
    /\ \E n \in 0..(NumSignals - 1) : signals[n] = timeout
    /\ \E n \in 0..(NumSignals - 1) : signals[n] = 0

(***************************************************************************)
(* Properties of the read stages.                                          *)
(***************************************************************************)
\* All three handshake transitions were observed.
HandshakeSeen == Len(waits) = 3 /\ \A k \in 1..3 : waits[k][2] # timeout

\* C14: a returned read reports Checksum exactly when the three handshake
\* transitions were observed, no sample equals the ceiling and byte[4] differs
\* from the 8-bit sum of bytes 0..3; a handshake timeout yields NoSignal and
\* a sample timeout yields NoData.
C14_FirstFailingStage ==
    Returned =>
        /\ ret.err = ChecksumError
               <=> (HandshakeSeen /\ NoSampleTimedOut /\ ~ChecksumMatches)
        /\ ~HandshakeSeen => ret.err = NoSignalError
        /\ (HandshakeSeen /\ ~NoSampleTimedOut) => ret.err = NoDataError

\* A read with a complete handshake and 80 samples below the ceiling returned
\* Checksum.
C14_Witness ==
    /\ Returned
    /\ ret.err = ChecksumError
    /\ HandshakeSeen
    /\ NoSampleTimedOut

\* Positions of a call from the release of the line to the end of sampling.
SamplingPcs == {"waitForDataTransmission", "receiveSignals", "receiveLoop"}

\* One step of a call seen from the pin: the handshake statements in their
\* order, each with its one pin operation, and the reads that follow.
HandshakeStep ==
    /\ pc = "configureOutput" =>
           /\ pc' = "low"
           /\ pinMode' = "output" /\ pinLevel' = pinLevel
           /\ pinOps' = pinOps + 1
    /\ pc = "low" =>
           /\ pc' = "sleep"
           /\ pinMode = "output" /\ pinMode' = pinMode
           /\ pinLevel' = FALSE
           /\ pinOps' = pinOps + 1
    /\ pc = "sleep" =>
           /\ pc' = "high"
           /\ pinMode = "output" /\ pinLevel = FALSE
           /\ UNCHANGED <<pin, pinOps>>
    /\ pc = "high" =>
           /\ pc' = "configureInput"
           /\ pinMode = "output" /\ pinMode' = pinMode
           /\ pinLevel' = TRUE
           /\ pinOps' = pinOps + 1
    /\ pc = "configureInput" =>
           /\ pc' = "waitForDataTransmission"
           /\ pinMode = "output" /\ pinMode' = "input"
           /\ pinLevel' = pinLevel
           /\ pinOps' = pinOps + 1
    /\ pc \in SamplingPcs =>
           /\ pinMode = "input"
           /\ UNCHANGED pin
           /\ pinOps' = pinOps + (IF pc = "receiveSignals" THEN 0 ELSE 1)

\* C15: the handshake configures the pin as output, drives it low, holds it,
\* drives it high and reconfigures it as input, in this order; every sampler
\* read happens while the pin is an input, and the host does not write the pin
\* from the reconfiguration to the end of sampling.
C15_HandshakeOrder == [][HandshakeStep]_vars

\* The last sample of a read is being taken.
C15_Witness ==
    /\ pc = "receiveLoop"
    /\ i = NumBits - 1
    /\ half = 1
    /\ pinMode = "input"

\* Positions of a call before, and after, the 80 samples.
BeforeSamplingPcs ==
    {"powerUp", "configureOutput", "low", "sleep", "high", "configureInput",
     "waitForDataTransmission", "receiveSignals"}
DecodingPcs == {"extractData", "isValid", "variantExtractData"}

\* Pin operations of powerUp: the read, and the write when the pin read low.
PowerUpOps == IF pre.pinLevel THEN 1 ELSE 2

\* The samples are taken in the order low phase, high phase of bit 0..39: the
\* one in progress is sample 2i + half, waiting for departure from low when
\* half = 0; the later ones are not yet written; sampling ends with all 80
\* taken, each with one pin read per count and the read that ended it.
AllSamplesInOrder ==
    /\ pc = "receiveLoop" =>
           /\ i \in 0..(NumBits - 1)
           /\ half \in {0, 1}
           /\ \A n \in (2 * i + half)..(NumSignals - 1) : signals[n] = 0
           /\ pinOps = PowerUpOps + 4 + WaitReads(3) + counter
                           + SampleReads(signals, 0) - (NumSignals - (2 * i + half))
    /\ pc \in {"interruptEnable"} \cup DecodingPcs =>
           /\ i = NumBits
           /\ pinOps = PowerUpOps + 4 + WaitReads(3) + SampleReads(signals, 0)

\* C17 as stated: all 80 samples are taken in order whatever times out; the
\* interrupt is disabled during the sampling and enabled during the handshake
\* and the transmission wait before it and the decoding after it; a read that
\* fails with NoSignal never disables it.
C17_InterruptsOffOnlyWhileSampling ==
    /\ AllSamplesInOrder
    /\ pc = "receiveLoop" => ~interruptEnabled
    /\ pc \in BeforeSamplingPcs \ {"powerUp"} => interruptEnabled
    /\ pc \in DecodingPcs => interruptEnabled
    /\ err = NoSignalError => "receiveSignals" \notin stages

\* C17, amended: all 80 samples are taken in order whatever times out; up to
\* the sampling the interrupt is as the caller left it, during the sampling it
\* is disabled, during the decoding it is enabled; a read that fails with
\* NoSignal never disables it and returns with it as the caller left it.
C17_SamplingCriticalSection ==
    /\ AllSamplesInOrder
    /\ pc \in BeforeSamplingPcs => interruptEnabled = pre.interruptEnabled
    /\ pc = "receiveLoop" => ~interruptEnabled
    /\ pc \in DecodingPcs => interruptEnabled
    /\ err = NoSignalError =>
           /\ "receiveSignals" \notin stages
           /\ interruptEnabled = pre.interruptEnabled

\* The first sample ran into the ceiling and the other 79 were taken all the
\* same, in a call entered with the interrupt disabled.
C17_Witness ==
    /\ pc = "interruptEnable"
    /\ i = NumBits
    /\ signals[0] = timeout
    /\ ~pre.interruptEnabled
    /\ pinOps = PowerUpOps + 4 + WaitReads(3) + SampleReads(signals, 0)

\* C18: a Measurements() call that fails returns, with the error, the
\* temperature and humidity the device had stored when the call was made, 0
\* and 0 when no read has succeeded; the stored values are left as they were.
C18_FailureReturnsStored ==
    (pc = "idle" /\ ret.op = "Measurements" /\ ret.err # NoError) =>
        /\ ret.temperature = pre.temperature
        /\ ret.humidity = pre.humidity
        /\ temperature = pre.temperature
        /\ humidity = pre.humidity
        /\ ~everSucceeded => (ret.temperature = 0 /\ ret.humidity = 0)

\* A read failed on the checksum after an earlier one had succeeded: the
\* values returned are the stored ones, not those of the buffer just received.
C18_Witness ==
    /\ pc = "idle"
    /\ ret.op = "Measurements"
    /\ ret.err = ChecksumError
    /\ everSucceeded
    /\ ret.temperature # 0
    /\ ret.temperature # Decoded.temperature
    /\ ret.humidity # Decoded.humidity

====
